---- MODULE Spec2Model ----
(***************************************************************************)
(* Bees-algorithm optimizer for the goods/duty allocation problem.         *)
(*                                                                         *)
(* Arrays are functions over 0-based index ranges, as in the Python code.  *)
(* Amounts of goods are integers: goods_amounts is an integer array, the   *)
(* initial split of goods_duty_optimizer/model.py (np.random.multinomial)  *)
(* is integral, and the repair loop and the mutation (random.randint) keep *)
(* it integral.  model.py draws a real-valued split instead (np.random     *)
(* .rand rescaled per column); of it the model takes the integral values.  *)
(* Every random draw is a nondeterministic choice over all its outcomes.   *)
(***************************************************************************)
EXTENDS Integers, FiniteSets, Sequences, TLC

VARIABLES
    settings,           \* Settings tuple of the run
    pc,                 \* position of the running call
    trucks_allocation,  \* generate_random_solution: the drawn trucks allocation
    allocation,         \* generate_random_goods_allocation: local `allocation`
    amount,             \* generate_random_goods_allocation: local `amount` of the loop
    solution,           \* the Solution returned / being mutated / searched around
    config,             \* the solver's parameters (the fields __init__ stores)
    population,         \* find_best_solution: local `population`
    loops,              \* find_best_solution: local `loops`
    last_cost,          \* find_best_solution: local `last_cost`
    i,                  \* _simulate_population: the index of the site being replaced
    initial_min_cost,   \* history: the least cost in the initial random population
    neighbours,         \* _find_best_neighbour: local `neighbours`
    best                \* _find_best_neighbour: index in `neighbours` of the returned one

vars == <<settings, pc, trucks_allocation, allocation, amount, solution, config,
          population, loops, last_cost, i, initial_min_cost, neighbours, best>>

genVars == <<trucks_allocation, allocation, amount>>

solverVars == <<config, population, loops, last_cost, i, initial_min_cost>>

searchVars == <<neighbours, best>>

\* a local that is not bound yet
NoArray == <<>>

NoSolution == [trucks_allocation |-> NoArray, goods_allocation |-> NoArray]

\* float('inf'): larger than every cost of the instances below
Inf == 1000000

\* ------------------------------------------------------------------ bounds
MaxTrucks == 3
MaxTypes == 2
MaxAmount == 3

\* ----------------------------------------------------------------- helpers
RECURSIVE SumTo(_, _)
\* sum of f[0] .. f[n-1]
SumTo(f, n) ==
    IF n = 0 THEN 0 ELSE f[n - 1] + SumTo(f, n - 1)

Min(a, b) == IF a <= b THEN a ELSE b

Max(a, b) == IF a >= b THEN a ELSE b

Trucks(s) == 0 .. (s.trucks_number - 1)

Types(s) == 0 .. (s.goods_types_number - 1)

Crossings(s) == 0 .. (s.crossings_number - 1)

\* goods_allocation.sum(axis=1): the load of every truck
RowSums(a, s) ==
    [t \in Trucks(s) |-> SumTo(a[t], s.goods_types_number)]

\* goods_allocation.sum(axis=0): the total of every goods type
ColSums(a, s) ==
    [k \in Types(s) |-> SumTo([t \in Trucks(s) |-> a[t][k]], s.trucks_number)]

\* numpy argmax: the first index of the largest entry of f[0..n-1]
ArgMax(f, n) ==
    CHOOSE x \in 0 .. (n - 1) :
        \A y \in 0 .. (n - 1) : f[y] <= f[x] /\ (y < x => f[y] < f[x])

\* numpy argmin: the first index of the smallest entry of f[0..n-1]
ArgMin(f, n) ==
    CHOOSE x \in 0 .. (n - 1) :
        \A y \in 0 .. (n - 1) : f[y] >= f[x] /\ (y < x => f[y] > f[x])

\* ------------------------------------------------------------------ model.py
\* (1) each truck carries at most truck_capacity
validate_trucks_capacity(sol, s) ==
    \A t \in Trucks(s) : RowSums(sol.goods_allocation, s)[t] <= s.truck_capacity

\* (2) every goods type is carried in full
validate_goods_total(sol, s) ==
    \A k \in Types(s) : ColSums(sol.goods_allocation, s)[k] = s.goods_amounts[k]

validate_solution(sol, s) ==
    validate_trucks_capacity(sol, s) /\ validate_goods_total(sol, s)

\* the guard of generate_random_goods_allocation
Infeasible(s) ==
    s.trucks_number * s.truck_capacity < SumTo(s.goods_amounts, s.goods_types_number)

\* every outcome of np.random.randint(0, crossings_number, size=trucks_number)
generate_random_truck_allocation(s) ==
    [Trucks(s) -> Crossings(s)]

\* every outcome of np.random.multinomial(total, ones/trucks_number): the ways
\* to deal `total` units over the trucks
Multinomial(total, s) ==
    {c \in [Trucks(s) -> 0 .. total] : SumTo(c, s.trucks_number) = total}

RECURSIVE SplitColumns(_, _)
\* the first n columns of the initial split: column k is a multinomial draw
\* of goods_amounts[k] units over the trucks
SplitColumns(n, s) ==
    IF n = 0 THEN {NoArray}
    ELSE {[k \in 0 .. (n - 1) |-> IF k < n - 1 THEN c[k] ELSE d] :
            c \in SplitColumns(n - 1, s),
            d \in Multinomial(s.goods_amounts[n - 1], s)}

\* every outcome of the initial split, as an array of shape (p, m)
InitialSplits(s) ==
    {[t \in Trucks(s) |-> [k \in Types(s) |-> c[k][t]]] :
        c \in SplitColumns(s.goods_types_number, s)}

\* the loop condition: np.any(allocation.sum(axis=1) > truck_capacity)
AnyOverloaded(a, s) ==
    \E t \in Trucks(s) : RowSums(a, s)[t] > s.truck_capacity

\* the bug of moving the donor's whole largest entry, whatever its excess
RepairAmount_WholeEntry(a, s) ==
    LET sums == RowSums(a, s)
        k1 == ArgMax(sums, s.trucks_number)
        j == ArgMax(a[k1], s.goods_types_number)
    IN  a[k1][j]

\* how much one iteration of the repair loop moves
RepairAmount(a, s) ==
    LET sums == RowSums(a, s)
        k1 == ArgMax(sums, s.trucks_number)
        j == ArgMax(a[k1], s.goods_types_number)
    IN  Min(a[k1][j], sums[k1] - s.truck_capacity)

\* the bug of taking the goods off the donor and not loading them on the receiver
RepairStep_NoReceive(a, s) ==
    LET sums == RowSums(a, s)
        k1 == ArgMax(sums, s.trucks_number)
        j == ArgMax(a[k1], s.goods_types_number)
    IN  [a EXCEPT ![k1][j] = @ - RepairAmount(a, s)]

\* one iteration of the repair loop: allocation[k1, j] -= amount, then
\* allocation[k2, j] += amount (k1 = k2 leaves the entry as it was)
RepairStep(a, s) ==
    LET sums == RowSums(a, s)
        k1 == ArgMax(sums, s.trucks_number)
        k2 == ArgMin(sums, s.trucks_number)
        j == ArgMax(a[k1], s.goods_types_number)
        amt == RepairAmount(a, s)
        a1 == [a EXCEPT ![k1][j] = @ - amt]
    IN  [a1 EXCEPT ![k2][j] = @ + amt]

\* the solver is not constructed
NoConfig == [population_size |-> 0]

\* ------------------------------------------- generate_random_solution, stepwise
\* the instances the generator is run on: every number of trucks and of goods
\* types and every goods_amounts within the bounds, feasible or not, with two
\* crossings and a truck capacity of 1 or 2
GenSettingsOf(m) ==
    {[crossings_number |-> 2, goods_types_number |-> m, trucks_number |-> p,
      truck_capacity |-> v, fuel_cost |-> 1,
      duties |-> [c \in 0 .. 1 |-> [k \in 0 .. (m - 1) |-> 1]],
      distances |-> [c \in 0 .. 1 |-> 1],
      goods_amounts |-> t] :
        p \in 1 .. MaxTrucks, v \in 1 .. 2,
        t \in {g \in [0 .. (m - 1) -> 0 .. MaxAmount] : SumTo(g, m) <= MaxAmount}}

GenSettings ==
    UNION {GenSettingsOf(m) : m \in 1 .. MaxTypes}

InitGen ==
    /\ settings \in GenSettings
    /\ pc = "generate_random_solution"
    /\ trucks_allocation = NoArray
    /\ allocation = NoArray
    /\ amount = 0
    /\ solution = NoSolution
    /\ config = NoConfig
    /\ population = NoArray
    /\ loops = 0
    /\ last_cost = Inf
    /\ i = 0
    /\ initial_min_cost = Inf
    /\ neighbours = NoArray
    /\ best = 0

\* trucks_allocation=generate_random_truck_allocation(settings): the first
\* argument of Solution(...) is evaluated first
DrawTrucks ==
    /\ pc = "generate_random_solution"
    /\ trucks_allocation' \in generate_random_truck_allocation(settings)
    /\ pc' = "generate_random_goods_allocation"
    /\ UNCHANGED <<settings, allocation, amount, solution, solverVars, searchVars>>

\* generate_random_goods_allocation up to its loop: the feasibility check raises
\* ValueError, or the initial split is drawn
DrawGoods ==
    /\ pc = "generate_random_goods_allocation"
    /\ IF Infeasible(settings)
       THEN /\ pc' = "ValueError"
            /\ UNCHANGED allocation
       ELSE /\ allocation' \in InitialSplits(settings)
            /\ pc' = "repair"
    /\ UNCHANGED <<settings, trucks_allocation, amount, solution, solverVars, searchVars>>

\* one iteration of the while loop
Repair ==
    /\ pc = "repair"
    /\ AnyOverloaded(allocation, settings)
    /\ amount' = RepairAmount(allocation, settings)
    /\ allocation' = RepairStep(allocation, settings)
    /\ UNCHANGED <<settings, pc, trucks_allocation, solution, solverVars, searchVars>>

\* the loop ends: the allocation is returned, the Solution is built, validated
\* and returned (or RuntimeError is raised)
ValidateAndReturn ==
    /\ pc = "repair"
    /\ ~AnyOverloaded(allocation, settings)
    /\ LET sol == [trucks_allocation |-> trucks_allocation,
                   goods_allocation |-> allocation]
       IN  IF validate_solution(sol, settings)
           THEN pc' = "returned" /\ solution' = sol
           ELSE pc' = "RuntimeError" /\ UNCHANGED solution
    /\ UNCHANGED <<settings, trucks_allocation, allocation, amount, solverVars, searchVars>>

NextGen ==
    \/ DrawTrucks
    \/ DrawGoods
    \/ Repair
    \/ ValidateAndReturn

SpecGen == InitGen /\ [][NextGen]_vars

\* total overflow: sum over trucks of max(0, row sum - truck_capacity)
Overflow(a, s) ==
    SumTo([t \in Trucks(s) |-> Max(0, RowSums(a, s)[t] - s.truck_capacity)],
          s.trucks_number)

NonNegative(a, s) ==
    \A t \in Trucks(s) : \A k \in Types(s) : a[t][k] >= 0

\* C1: on a feasible instance generate_random_solution returns, for every
\* outcome of the random draws, a solution (it never ends in RuntimeError) that
\* satisfies I1 and I2, has no negative entry and assigns every truck a crossing
\* in [0, crossings_number).
C1_GeneratedFeasible ==
    (pc \in {"returned", "RuntimeError"} /\ ~Infeasible(settings)) =>
        /\ pc = "returned"
        /\ validate_trucks_capacity(solution, settings)
        /\ validate_goods_total(solution, settings)
        /\ NonNegative(solution.goods_allocation, settings)
        /\ \A t \in Trucks(settings) :
              solution.trucks_allocation[t] \in 0 .. (settings.crossings_number - 1)

\* a solution was returned on an instance where some split needs repair: a
\* truck is loaded exactly to capacity and there are at least two trucks
C1_Witness ==
    /\ pc = "returned"
    /\ ~Infeasible(settings)
    /\ settings.trucks_number >= 2
    /\ \E t \in Trucks(settings) :
          RowSums(solution.goods_allocation, settings)[t] = settings.truck_capacity
    /\ \E t \in Trucks(settings) :
          RowSums(solution.goods_allocation, settings)[t] < settings.truck_capacity

\* C4 (as claimed): when the instance is infeasible the generator raises before
\* any part of a solution has been drawn.
C4_NothingDrawnBeforeError ==
    pc = "ValueError" => (trucks_allocation = NoArray /\ allocation = NoArray)

\* C8: every iteration of the repair loop moves a strictly positive amount from
\* the most loaded truck to the least loaded one, keeps every column sum, and
\* strictly decreases the total overflow, which is never negative: the loop
\* cannot run forever; and once no truck is over capacity the loop is left
\* and the allocation is returned with no truck over capacity.
C8_RepairDecreasesOverflow ==
    [][/\ (pc = "repair" /\ AnyOverloaded(allocation, settings)) =>
            LET sums == RowSums(allocation, settings)
                k1 == ArgMax(sums, settings.trucks_number)
                k2 == ArgMin(sums, settings.trucks_number)
                after == RowSums(allocation', settings)
            IN  /\ amount' > 0
                /\ k1 # k2
                /\ after = [sums EXCEPT ![k1] = @ - amount', ![k2] = @ + amount']
                /\ NonNegative(allocation', settings)
                /\ ColSums(allocation', settings) = ColSums(allocation, settings)
                /\ Overflow(allocation', settings) < Overflow(allocation, settings)
                /\ Overflow(allocation', settings) >= 0
       /\ (pc = "repair" /\ ~AnyOverloaded(allocation, settings)) =>
                /\ pc' = "returned"
                /\ solution'.goods_allocation = allocation
                /\ validate_trucks_capacity(solution', settings)]_vars

\* an iteration has moved goods onto a truck that it pushed over capacity, so
\* that a further iteration is needed
C8_Witness ==
    /\ pc = "repair"
    /\ amount > 0
    /\ LET sums == RowSums(allocation, settings)
           k1 == ArgMax(sums, settings.trucks_number)
       IN  /\ sums[k1] > settings.truck_capacity
           /\ sums[k1] - amount <= settings.truck_capacity

\* --------------------------------------------------------- bees_algorithm.py
\* cost of a solution: duties of the carried goods plus fuel of every truck
calculate_cost(sol, s) ==
    LET duties_cost ==
            SumTo([t \in Trucks(s) |->
                      SumTo([k \in Types(s) |->
                                sol.goods_allocation[t][k]
                                    * s.duties[sol.trucks_allocation[t]][k]],
                            s.goods_types_number)],
                  s.trucks_number)
        fuel_cost ==
            SumTo([t \in Trucks(s) |->
                      s.fuel_cost * s.distances[sol.trucks_allocation[t]]],
                  s.trucks_number)
    IN  duties_cost + fuel_cost

\* spaces = truck_capacity - goods_allocation.sum(axis=1)
Spaces(sol, s) ==
    [t \in Trucks(s) |-> s.truck_capacity - RowSums(sol.goods_allocation, s)[t]]

\* np.argwhere(spaces > 0): the trucks t_to is chosen from
Receivers(sol, s) ==
    {t \in Trucks(s) : Spaces(sol, s)[t] > 0}

\* np.argwhere(goods_allocation[:, k] > 0): the trucks t_from is chosen from
Donors(sol, k, s) ==
    {t \in Trucks(s) : sol.goods_allocation[t][k] > 0}

\* the bug of bounding the move by the donor's goods only
MaxMove_DonorOnly(sol, k, t_from, t_to, s) ==
    sol.goods_allocation[t_from][k]

\* max_amount: what can be moved of type k from t_from to t_to
MaxMove(sol, k, t_from, t_to, s) ==
    Min(sol.goods_allocation[t_from][k], Spaces(sol, s)[t_to])

\* goods_allocation[t_from, k] -= amount; goods_allocation[t_to, k] += amount
MoveGoods(sol, k, t_from, t_to, amt) ==
    LET a1 == [sol.goods_allocation EXCEPT ![t_from][k] = @ - amt]
    IN  [sol EXCEPT !.goods_allocation = [a1 EXCEPT ![t_to][k] = @ + amt]]

\* the bug of not failing when no truck has free space
GoodsMutationRaises_DonorsOnly(sol, k, s) ==
    Donors(sol, k, s) = {}

\* random.choice of an empty sequence raises IndexError: no truck has free
\* space, or (for the drawn k) no truck carries goods of type k
GoodsMutationRaises(sol, k, s) ==
    Receivers(sol, s) = {} \/ Donors(sol, k, s) = {}

\* every solution one call of _mutate_goods_allocation can leave behind
GoodsMutationOutcomes(sol, s) ==
    UNION {UNION {UNION {
        {MoveGoods(sol, k, t_from, t_to, amt) :
            amt \in 1 .. MaxMove(sol, k, t_from, t_to, s)} :
        t_from \in Donors(sol, k, s)} :
        t_to \in Receivers(sol, s)} :
        k \in Types(s)}

\* every solution one call of _mutate_trucks_allocation can leave behind
TrucksMutationOutcomes(sol, s) ==
    {[sol EXCEPT !.trucks_allocation[t] = c] : t \in Trucks(s), c \in Crossings(s)}

\* every Solution that satisfies (1) and (2) and has no negative entry
FeasibleSolutions(s) ==
    {[trucks_allocation |-> ta, goods_allocation |-> a] :
        ta \in generate_random_truck_allocation(s),
        a \in {x \in InitialSplits(s) : ~AnyOverloaded(x, s)}}

\* ------------------------------------------------- _mutate_solution, stepwise
MaxMutations == 2

MutateSettings ==
    {s \in GenSettings : ~Infeasible(s)}

MutateConfigs ==
    {[population_size |-> 0, goods_mutations |-> gm, trucks_mutations |-> tm] :
        gm \in 0 .. MaxMutations, tm \in 0 .. 1}

InitMutate ==
    /\ settings \in MutateSettings
    /\ config \in MutateConfigs
    /\ solution \in FeasibleSolutions(settings)
    /\ pc = "_mutate_solution"
    /\ i = 0
    /\ trucks_allocation = NoArray
    /\ allocation = NoArray
    /\ amount = 0
    /\ population = NoArray
    /\ loops = 0
    /\ last_cost = Inf
    /\ initial_min_cost = Inf
    /\ neighbours = NoArray
    /\ best = 0

\* one call of _mutate_goods_allocation from the first loop of _mutate_solution
MutateGoods ==
    /\ pc = "_mutate_solution"
    /\ i < config.goods_mutations
    /\ \E k \in Types(settings) :
          IF GoodsMutationRaises(solution, k, settings)
          THEN /\ pc' = "IndexError"
               /\ UNCHANGED <<solution, i>>
          ELSE \E t_to \in Receivers(solution, settings) :
               \E t_from \in Donors(solution, k, settings) :
               \E amt \in 1 .. MaxMove(solution, k, t_from, t_to, settings) :
                  /\ solution' = MoveGoods(solution, k, t_from, t_to, amt)
                  /\ i' = i + 1
                  /\ pc' = pc
    /\ UNCHANGED <<settings, config, genVars, population, loops, last_cost,
                   initial_min_cost, searchVars>>

\* one call of _mutate_trucks_allocation from the second loop
MutateTrucks ==
    /\ pc = "_mutate_solution"
    /\ i >= config.goods_mutations
    /\ i < config.goods_mutations + config.trucks_mutations
    /\ solution' \in TrucksMutationOutcomes(solution, settings)
    /\ i' = i + 1
    /\ UNCHANGED <<settings, config, pc, genVars, population, loops, last_cost,
                   initial_min_cost, searchVars>>

\* both loops are over: _mutate_solution returns
MutateReturn ==
    /\ pc = "_mutate_solution"
    /\ i = config.goods_mutations + config.trucks_mutations
    /\ pc' = "mutated"
    /\ UNCHANGED <<settings, config, solution, genVars, population, loops, last_cost,
                   i, initial_min_cost, searchVars>>

NextMutate ==
    \/ MutateGoods
    \/ MutateTrucks
    \/ MutateReturn

SpecMutate == InitMutate /\ [][NextMutate]_vars

\* C2: goods mutations applied to a solution that satisfies I1 and I2 keep I1
\* (no truck over capacity), keep I2 (every column sum) and leave no negative
\* entry, after any number of consecutive mutations.
C2_MutationPreservesFeasibility ==
    /\ validate_trucks_capacity(solution, settings)
    /\ validate_goods_total(solution, settings)
    /\ NonNegative(solution.goods_allocation, settings)

\* two goods mutations have been applied and a truck is filled to capacity
C2_Witness ==
    /\ pc = "_mutate_solution"
    /\ config.goods_mutations >= 2
    /\ i = 2
    /\ \E t \in Trucks(settings) : Spaces(solution, settings)[t] = 0
    /\ \E t \in Trucks(settings) : Spaces(solution, settings)[t] > 0

\* ----------------------------------------------------- neighbourhood search
RECURSIVE AfterGoodsMutations(_, _, _)
\* the solutions n successful calls of _mutate_goods_allocation can lead to
AfterGoodsMutations(sols, n, s) ==
    IF n = 0 THEN sols
    ELSE AfterGoodsMutations(UNION {GoodsMutationOutcomes(x, s) : x \in sols}, n - 1, s)

RECURSIVE AfterTrucksMutations(_, _, _)
\* the solutions n calls of _mutate_trucks_allocation can lead to
AfterTrucksMutations(sols, n, s) ==
    IF n = 0 THEN sols
    ELSE AfterTrucksMutations(UNION {TrucksMutationOutcomes(x, s) : x \in sols}, n - 1, s)

\* every neighbour _mutate_solution can make of a copy of sol
MutatedSolutions(sol, cfg, s) ==
    AfterTrucksMutations(AfterGoodsMutations({sol}, cfg.goods_mutations, s),
                         cfg.trucks_mutations, s)

\* some outcome of the random draws makes _mutate_solution raise IndexError
MutateSolutionCanRaise(sol, cfg, s) ==
    \E n \in 0 .. (cfg.goods_mutations - 1) :
        \E x \in AfterGoodsMutations({sol}, n, s) :
            \E k \in Types(s) : GoodsMutationRaises(x, k, s)

\* neighbours.append(solution): the mutated copies, then the original
WithOriginal(copies, count, sol) ==
    [j \in 0 .. count |-> IF j < count THEN copies[j] ELSE sol]

\* the bug of sorting in descending order: the most expensive element
BestIndex_Worst(list, len, s) ==
    ArgMax([j \in 0 .. (len - 1) |-> calculate_cost(list[j], s)], len)

\* the bug of taking the last element of least cost instead of the first
BestIndex_LastMinimum(list, len, s) ==
    LET cost == [j \in 0 .. (len - 1) |-> calculate_cost(list[j], s)]
    IN  CHOOSE x \in 0 .. (len - 1) :
            \A y \in 0 .. (len - 1) : cost[y] >= cost[x] /\ (y > x => cost[y] > cost[x])

\* sorted(neighbours, key=cost)[0]: the sort is stable, so the first element
\* of least cost in list order
BestIndex(list, len, s) ==
    ArgMin([j \in 0 .. (len - 1) |-> calculate_cost(list[j], s)], len)

\* every list `neighbours` can be when _find_best_neighbour sorts it
NeighbourLists(sol, count, cfg, s) ==
    {WithOriginal(copies, count, sol) :
        copies \in [0 .. (count - 1) -> MutatedSolutions(sol, cfg, s)]}

\* every solution _find_best_neighbour can return
FindBestNeighbourResults(sol, count, cfg, s) ==
    {list[BestIndex(list, count + 1, s)] : list \in NeighbourLists(sol, count, cfg, s)}

\* some outcome of the random draws makes _find_best_neighbour raise
FindBestNeighbourCanRaise(sol, count, cfg, s) ==
    count >= 1 /\ MutateSolutionCanRaise(sol, cfg, s)

\* ------------------------------------------------ the instances of the solver
MaxGoods == 5

\* two trucks of capacity 2, one goods type, two crossings: crossing 0 has the
\* lower duty and the longer way
SolverSettings ==
    {[crossings_number |-> 2, goods_types_number |-> 1, trucks_number |-> 2,
      truck_capacity |-> 2, fuel_cost |-> 1,
      duties |-> (0 :> (0 :> 1) @@ 1 :> (0 :> 2)),
      distances |-> (0 :> 2 @@ 1 :> 0),
      goods_amounts |-> (0 :> g)] : g \in 3 .. MaxGoods}

\* ------------------------------------------- _find_best_neighbour, as one call
MaxNeighbours == 2

InitSearch ==
    /\ settings \in {s \in SolverSettings : ~Infeasible(s)}
    /\ config \in MutateConfigs
    /\ solution \in FeasibleSolutions(settings)
    /\ pc = "_find_best_neighbour"
    /\ neighbours = NoArray
    /\ best = 0
    /\ trucks_allocation = NoArray
    /\ allocation = NoArray
    /\ amount = 0
    /\ population = NoArray
    /\ loops = 0
    /\ last_cost = Inf
    /\ i = 0
    /\ initial_min_cost = Inf

\* _find_best_neighbour(solution, count), for every count within the bound
FindBestNeighbour ==
    /\ pc = "_find_best_neighbour"
    /\ \E count \in 0 .. MaxNeighbours :
          \/ /\ FindBestNeighbourCanRaise(solution, count, config, settings)
             /\ pc' = "IndexError"
             /\ UNCHANGED searchVars
          \/ \E list \in NeighbourLists(solution, count, config, settings) :
                /\ neighbours' = list
                /\ best' = BestIndex(list, count + 1, settings)
                /\ pc' = "neighbour_returned"
    /\ UNCHANGED <<settings, config, solution, genVars, population, loops,
                   last_cost, i, initial_min_cost>>

NextSearch ==
    FindBestNeighbour

SpecSearch == InitSearch /\ [][NextSearch]_vars

\* the index of the original solution in `neighbours`: it is appended last
OriginalIndex == Cardinality(DOMAIN neighbours) - 1

NeighbourCost(j) == calculate_cost(neighbours[j], settings)

\* C9 (as claimed): the returned element has the least cost of the list, and
\* the original solution is returned whenever its cost is that least cost.
C9_OriginalWinsTies ==
    pc = "neighbour_returned" =>
        /\ \A j \in DOMAIN neighbours : NeighbourCost(best) <= NeighbourCost(j)
        /\ NeighbourCost(OriginalIndex) = NeighbourCost(best) => best = OriginalIndex

\* C9 (amended): the returned element has the least cost of the list, and it
\* is the first such element in list order: a mutated copy that ties with the
\* original wins, and the original is returned only when it is strictly
\* cheaper than every mutated copy.
C9_FirstMinimumWins ==
    pc = "neighbour_returned" =>
        /\ \A j \in DOMAIN neighbours : NeighbourCost(best) <= NeighbourCost(j)
        /\ \A j \in DOMAIN neighbours : j < best => NeighbourCost(j) > NeighbourCost(best)
        /\ best = OriginalIndex <=>
              \A j \in DOMAIN neighbours :
                  j # OriginalIndex => NeighbourCost(j) > NeighbourCost(OriginalIndex)

\* the original and a mutated copy tie at the least cost, and the copy is returned
C9_Witness ==
    /\ pc = "neighbour_returned"
    /\ OriginalIndex >= 1
    /\ NeighbourCost(OriginalIndex) = NeighbourCost(best)
    /\ best # OriginalIndex

\* ------------------------------------------------------- the population loop
RECURSIVE Repaired(_, _)
\* the allocation the repair loop of generate_random_goods_allocation ends with
Repaired(a, s) ==
    IF AnyOverloaded(a, s) THEN Repaired(RepairStep(a, s), s) ELSE a

\* every Solution generate_random_solution can build before it validates it
GeneratedSolutions(s) ==
    {[trucks_allocation |-> ta, goods_allocation |-> Repaired(a, s)] :
        ta \in generate_random_truck_allocation(s), a \in InitialSplits(s)}

\* GeneratedSolutions for every instance of the solver, computed once (the
\* generator raises ValueError on an infeasible instance and builds nothing)
GeneratedSolutionsOf ==
    [s \in SolverSettings |-> IF Infeasible(s) THEN {} ELSE GeneratedSolutions(s)]

\* every list [generate_random_solution(settings) for _ in range(len)] can
\* build; the generator is not called at all for an empty one
GeneratedPopulations(len, s) ==
    IF len = 0 THEN {NoArray}
    ELSE [0 .. (len - 1) -> GeneratedSolutionsOf[s]]

\* the bug of leaving the population unsorted
SortedPopulation_Unsorted(pop, len, s) ==
    pop

\* population.sort(key=cost): ascending and stable, so an element's place is
\* the number of elements that are cheaper, or as cheap and before it
SortedPopulation(pop, len, s) ==
    LET cost(j) == calculate_cost(pop[j], s)
        rank(j) == Cardinality({y \in 0 .. (len - 1) :
                        cost(y) < cost(j) \/ (cost(y) = cost(j) /\ y < j)})
    IN  [r \in 0 .. (len - 1) |-> pop[CHOOSE j \in 0 .. (len - 1) : rank(j) = r]]

\* the least cost in a population (float('inf') for an empty one)
MinCost(pop, len, s) ==
    IF len = 0 THEN Inf
    ELSE LET b == ArgMin([j \in 0 .. (len - 1) |-> calculate_cost(pop[j], s)], len)
         IN  calculate_cost(pop[b], s)

\* IterationsBeesSolver._stop_condition and DeltaBeesSolver._stop_condition
stop_condition(cfg, n, last, new) ==
    IF cfg.kind = "iterations" THEN n > cfg.iterations
    ELSE last - new < cfg.delta

MaxPopulation == 2
MaxElite == 2
MaxNormal == 1
MaxIterations == 1

\* the solvers that are run: every combination within the bounds, those with
\* elite_sites + normal_sites > population_size included (__init__ stores
\* whatever it is given)
SolverConfigs ==
    {[population_size |-> ps, goods_mutations |-> gm, trucks_mutations |-> 1,
      elite_sites |-> es, normal_sites |-> ns,
      elite_site_size |-> 2, normal_site_size |-> 1,
      kind |-> kd, iterations |-> it, delta |-> 1] :
        ps \in 0 .. MaxPopulation, gm \in 0 .. 1,
        es \in 0 .. MaxElite, ns \in 0 .. MaxNormal,
        kd \in {"iterations", "delta"}, it \in 0 .. MaxIterations}

\* the two fields of a solver that _mutate_solution reads
MutationsOf(cfg) ==
    [goods_mutations |-> cfg.goods_mutations, trucks_mutations |-> cfg.trucks_mutations]

\* the neighbourhood sizes _simulate_population asks for
SiteSizes ==
    {c.elite_site_size : c \in SolverConfigs} \cup {c.normal_site_size : c \in SolverConfigs}

\* _find_best_neighbour for every instance, mutation counts, neighbourhood
\* size and feasible solution, computed once: whether it can raise, and
\* every solution it can return
FindBestNeighbourOf ==
    [s \in SolverSettings |->
        [m \in {MutationsOf(c) : c \in SolverConfigs} |->
            [count \in SiteSizes |->
                [sol \in FeasibleSolutions(s) |->
                    [raises |-> FindBestNeighbourCanRaise(sol, count, m, s),
                     results |-> FindBestNeighbourResults(sol, count, m, s)]]]]]

Init ==
    /\ settings \in SolverSettings
    /\ config \in {c \in SolverConfigs : c.kind = "delta" => c.iterations = 0}
    /\ pc = "find_best_solution"
    /\ population = NoArray
    /\ loops = 0
    /\ last_cost = Inf
    /\ i = 0
    /\ initial_min_cost = Inf
    /\ solution = NoSolution
    /\ trucks_allocation = NoArray
    /\ allocation = NoArray
    /\ amount = 0
    /\ neighbours = NoArray
    /\ best = 0

\* loops = 0; population = [generate_random_solution(settings) for ...];
\* last_cost = inf. The first call raises ValueError on an infeasible instance.
GeneratePopulation ==
    /\ pc = "find_best_solution"
    /\ IF config.population_size > 0 /\ Infeasible(settings)
       THEN /\ pc' = "ValueError"
            /\ UNCHANGED <<population, initial_min_cost>>
       ELSE \E pop \in GeneratedPopulations(config.population_size, settings) :
              IF \A j \in DOMAIN pop : validate_solution(pop[j], settings)
              THEN /\ population' = pop
                   /\ initial_min_cost' = MinCost(pop, config.population_size, settings)
                   /\ pc' = "loop"
              ELSE /\ pc' = "RuntimeError"
                   /\ UNCHANGED <<population, initial_min_cost>>
    /\ loops' = 0
    /\ last_cost' = Inf
    /\ UNCHANGED <<settings, config, solution, i, genVars, searchVars>>

\* the loop condition reads population[0]: IndexError on an empty population
RaiseOnEmptyPopulation ==
    /\ pc = "loop"
    /\ config.population_size = 0
    /\ pc' = "IndexError"
    /\ UNCHANGED <<settings, config, solution, population, loops, last_cost, i,
                   initial_min_cost, genVars, searchVars>>

\* the stop condition holds: return population[0]
ReturnBest ==
    /\ pc = "loop"
    /\ config.population_size > 0
    /\ stop_condition(config, loops, last_cost, calculate_cost(population[0], settings))
    /\ solution' = population[0]
    /\ pc' = "returned"
    /\ UNCHANGED <<settings, config, population, loops, last_cost, i,
                   initial_min_cost, genVars, searchVars>>

\* the stop condition does not hold: loops += 1, last_cost is taken, and
\* _simulate_population starts by sorting the population
BeginGeneration ==
    /\ pc = "loop"
    /\ config.population_size > 0
    /\ ~stop_condition(config, loops, last_cost, calculate_cost(population[0], settings))
    /\ loops' = loops + 1
    /\ last_cost' = calculate_cost(population[0], settings)
    /\ population' = SortedPopulation(population, config.population_size, settings)
    /\ i' = 0
    /\ pc' = "_simulate_population"
    /\ UNCHANGED <<settings, config, solution, initial_min_cost, genVars, searchVars>>

\* where _simulate_population is after index j: in its loops, or back in
\* find_best_solution with the population it returns
AfterIndex(j, cfg) ==
    IF j < cfg.elite_sites + cfg.normal_sites \/ j < cfg.population_size
    THEN "_simulate_population"
    ELSE "loop"

\* population[i] = self._find_best_neighbour(population[i], count)
SearchSite(count) ==
    IF i >= config.population_size
    THEN \* population[i] is out of range
         /\ pc' = "IndexError"
         /\ UNCHANGED <<population, i>>
    ELSE LET call == FindBestNeighbourOf[settings][MutationsOf(config)][count][population[i]]
         IN  \/ /\ call.raises
                /\ pc' = "IndexError"
                /\ UNCHANGED <<population, i>>
             \/ \E found \in call.results :
                   /\ population' = [population EXCEPT ![i] = found]
                   /\ i' = i + 1
                   /\ pc' = AfterIndex(i + 1, config)

\* one pass of the first loop: an elite site
EliteSite ==
    /\ pc = "_simulate_population"
    /\ i < config.elite_sites
    /\ SearchSite(config.elite_site_size)
    /\ UNCHANGED <<settings, config, solution, loops, last_cost, initial_min_cost,
                   genVars, searchVars>>

\* one pass of the second loop: a normal site
NormalSite ==
    /\ pc = "_simulate_population"
    /\ i >= config.elite_sites
    /\ i < config.elite_sites + config.normal_sites
    /\ SearchSite(config.normal_site_size)
    /\ UNCHANGED <<settings, config, solution, loops, last_cost, initial_min_cost,
                   genVars, searchVars>>

\* one pass of the third loop: population[i] = generate_random_solution(settings)
Scout ==
    /\ pc = "_simulate_population"
    /\ i >= config.elite_sites + config.normal_sites
    /\ i < config.population_size
    /\ \E sol \in GeneratedSolutionsOf[settings] :
          IF validate_solution(sol, settings)
          THEN /\ population' = [population EXCEPT ![i] = sol]
               /\ i' = i + 1
               /\ pc' = AfterIndex(i + 1, config)
          ELSE /\ pc' = "RuntimeError"
               /\ UNCHANGED <<population, i>>
    /\ UNCHANGED <<settings, config, solution, loops, last_cost, initial_min_cost,
                   genVars, searchVars>>

Next ==
    \/ GeneratePopulation
    \/ RaiseOnEmptyPopulation
    \/ ReturnBest
    \/ BeginGeneration
    \/ EliteSite
    \/ NormalSite
    \/ Scout

Spec == Init /\ [][Next]_vars

PopulationCost(j) == calculate_cost(population[j], settings)

\* elite_sites + normal_sites > population_size
Misconfigured(cfg) ==
    cfg.elite_sites + cfg.normal_sites > cfg.population_size

\* C3: with elite_sites >= 1, whenever a generation step has ended the cost
\* of population[0] is at most the cost population[0] had before that step
\* (last_cost is that cost: it is taken right before _simulate_population).
C3_BestCostNonIncreasing ==
    (pc = "loop" /\ loops >= 1 /\ config.elite_sites >= 1) =>
        PopulationCost(0) <= last_cost

\* a second generation step has ended and has improved population[0]
C3_Witness ==
    /\ pc = "loop"
    /\ loops >= 2
    /\ config.elite_sites >= 1
    /\ PopulationCost(0) < last_cost

\* C5 (as claimed): the iteration-bound solver configured for N generations
\* returns after exactly N generation steps.
C5_ExactlyNGenerations ==
    (pc = "returned" /\ config.kind = "iterations" /\ config.iterations >= 0) =>
        loops = config.iterations

\* C6 (as claimed): what the iteration-bound solver returns satisfies I1 and
\* I2 and costs no more than any solution of the initial random population.
C6_ReturnedNoWorseThanInitial ==
    (pc = "returned" /\ config.kind = "iterations") =>
        /\ validate_solution(solution, settings)
        /\ calculate_cost(solution, settings) <= initial_min_cost

\* C6 (amended): the same, for a solver that has at least one elite or normal
\* site (and an iteration bound N >= 0, so that a generation step is run).
C6_ReturnedNoWorseThanInitialWithSites ==
    (/\ pc = "returned"
     /\ config.kind = "iterations"
     /\ config.iterations >= 0
     /\ config.elite_sites + config.normal_sites >= 1) =>
        /\ validate_solution(solution, settings)
        /\ calculate_cost(solution, settings) <= initial_min_cost

\* the iteration-bound solver has returned, after two generation steps, a
\* solution that is cheaper than every solution of the initial population
C6_Witness ==
    /\ pc = "returned"
    /\ config.kind = "iterations"
    /\ config.iterations >= 1
    /\ config.elite_sites + config.normal_sites >= 1
    /\ loops >= 2
    /\ calculate_cost(solution, settings) < initial_min_cost

\* C7 (as claimed): a solver with elite_sites + normal_sites > population_size
\* is rejected: no generation step replaces a population entry (i counts the
\* entries replaced in the running step) and no solution is returned.
C7_MisconfigurationRejected ==
    Misconfigured(config) => (pc # "returned" /\ i = 0)

\* C10 (as claimed): whenever find_best_solution evaluates the stop condition
\* or returns population[0], no solution of the population is cheaper than
\* population[0].
C10_IndexZeroIsBest ==
    (pc \in {"loop", "returned"} /\ config.population_size > 0) =>
        \A j \in 0 .. (config.population_size - 1) :
            PopulationCost(0) <= PopulationCost(j)

\* no truck has free space: every row sum equals truck_capacity
NoFreeSpace(sol, s) ==
    \A t \in Trucks(s) : Spaces(sol, s)[t] = 0

\* _simulate_population is about to search around population[i], which has no
\* free space, with a solver that applies goods mutations
SearchesAroundFull ==
    /\ pc = "_simulate_population"
    /\ i < config.elite_sites + config.normal_sites
    /\ i < config.population_size
    /\ config.goods_mutations >= 1
    /\ NoFreeSpace(population[i], settings)

\* C11: when a site search reaches a solution in which no truck has free
\* space, the goods mutation fails: the step is taken (the call does not
\* hang), it ends find_best_solution with IndexError, the population (the
\* goods and trucks allocation of the searched solution included) is left as
\* it was, and no solution is returned; and a run that ended with IndexError
\* has returned nothing.
C11_FullSolutionFailsMutation ==
    /\ [](SearchesAroundFull => ENABLED (EliteSite \/ NormalSite))
    /\ [][SearchesAroundFull =>
            /\ pc' = "IndexError"
            /\ population' = population
            /\ solution' = NoSolution]_vars
    /\ [](pc = "IndexError" => solution = NoSolution)

\* find_best_solution has failed in a site search around a solution with no
\* free space
C11_Witness ==
    /\ pc = "IndexError"
    /\ loops >= 1
    /\ i < config.elite_sites + config.normal_sites
    /\ i < config.population_size
    /\ config.goods_mutations >= 1
    /\ NoFreeSpace(population[i], settings)
    /\ solution = NoSolution

====
